---------------------------- MODULE Spec2Model ----------------------------
(***************************************************************************)
(* The FraudPrevention component (src/unnamed/part_001): the content risk  *)
(* scoring function analyzeContent, and the component state around it      *)
(* (alert history, counters, warning popup, manual test panel).            *)
(*                                                                         *)
(* Text.  A content string is a sequence of fragments, the string being    *)
(* their concatenation.  A text fragment is a line of its own (a line      *)
(* break before and after it), except the component's own examples, which  *)
(* are the literal strings of the source.  The URL fragments are a scheme, *)
(* a host, a port, a path and a query.  A regular expression of the source *)
(* is the set of fragments in which it finds a match; over the contents    *)
(* built here a match never spans two fragments ("." matches no line       *)
(* break), apart from the anchored patterns, which are stated on the       *)
(* sequence.                                                               *)
(*                                                                         *)
(* Numbers.  A JavaScript number is an IEEE-754 double.  The double        *)
(* (n * 2^60 + d) / (S * 2^60) is the record [n |-> n, d |-> d] at scale   *)
(* S: n counts units of 1/S (S = 100 for weights, 300 for confidences),    *)
(* d is what rounding has added.  Sums, products and quotients round to    *)
(* nearest, ties to even, as the hardware does.                            *)
(***************************************************************************)
EXTENDS Integers, Sequences, FiniteSets, TLC

\* ------------------------------------------------------------- bounds --
\* Text fragments in one content.
MaxFrags == 2

\* Alerts produced in one run of the component.
MaxAlerts == 2

\* Alerts produced in one run of the component under the narrow environment.
MaxRun == 12

\* ---------------------------------------------------------- vocabulary --
Types == {"url", "email", "sms"}

\* fraudExamples (lines 530-549) and randomContentGenerators.email.legitimate[1]
\* (lines 630-645) are named, not spelled out.
Examples == {"fraudExamples.email", "fraudExamples.sms", "legitimate.email[2]"}

Lines ==
  {"hello team", "urgent notice", "you won a prize", "verify password",
   "reply stop to unsubscribe", "send $500", "wow !!!", "ATTENTIONPLEASE read",
   "meeting reminder", "from: 12345", "mail x@bank.ru soon",
   "ann.lee@corp-mail.com wrote this"}

\* Three spaces.
Blank == "   "

\* A text without line breaks that matches every rule of the URL table and is no
\* URL: its host would hold spaces.
Crowded ==
  "http://bit.ly urgent winner login 10.0.0.1 secure-x.tk paypal ?account=1 xn--a.exe"

\* fraudExamples.sms (line 547) without its last sentence.
PrizeSms ==
  "CONGRATULATIONS! You've won $10,000! Click this link now to claim your prize before it expires: http://bit.ly/claim-now."

TextFrags == Lines \cup Examples \cup {Blank, Crowded, PrizeSms}

Schemes == {"https://", "http://"}

\* "[U+0430]pple.com" begins with the Cyrillic letter a.
Hosts ==
  {"www.github.com", "secure-bankoamerica.tk", "httpbin.org", "a.b.c.example.com",
   "192.168.1.100", "[U+0430]pple.com", "xn--pple-43d.com", "shop.example.top"}

Ports == {":8080", ":443"}

\* "/a{210}" is a slash and 210 letters.
Paths == {"/", "/org/repo", "/files/report.pdf", "/login.php", "/login", "/a{210}"}

Queries == {"?verify=suspended&urgent=true"}

Fragments == TextFrags \cup Schemes \cup Hosts \cup Ports \cup Paths \cup Queries

\* -------------------------------------------------------- the alert list --
\* What the Recent Alerts card shows around its entries (lines 885-901): the
\* textContent of its title, its description and its Clear All button.
CardHeader ==
  "Recent Fraud AlertsLatest threats detected and blocked by the systemClear All"

\* The head of an entry (lines 919-935): the badges of the type and of the
\* threat, the BLOCKED badge, and the time, new Date(alert.timestamp)
\* .toLocaleTimeString(), which is shown as 10:15:30 AM.
badges ==
  [url   |-> <<"URLLOW RISK10:15:30 AM",
               "URLMEDIUM RISK10:15:30 AM",
               "URLMEDIUM RISKBLOCKED10:15:30 AM",
               "URLHIGH RISKBLOCKED10:15:30 AM">>,
   email |-> <<"EMAILLOW RISK10:15:30 AM",
               "EMAILMEDIUM RISK10:15:30 AM",
               "EMAILMEDIUM RISKBLOCKED10:15:30 AM",
               "EMAILHIGH RISKBLOCKED10:15:30 AM">>,
   sms   |-> <<"SMSLOW RISK10:15:30 AM",
               "SMSMEDIUM RISK10:15:30 AM",
               "SMSMEDIUM RISKBLOCKED10:15:30 AM",
               "SMSHIGH RISKBLOCKED10:15:30 AM">>]

Badge(alert) ==
  LET row == badges[alert.type]
  IN  IF alert.threat = "low" THEN row[1]
      ELSE IF alert.threat = "high" THEN row[4]
      ELSE IF alert.blocked THEN row[3] ELSE row[2]

\* String.prototype.length of what the list shows: the header, the label of the
\* reasons (line 943), the badges and the reasons.
RenderLen ==
  (CardHeader :> 77) @@ ("Threats detected:" :> 17) @@
  ("URLLOW RISK10:15:30 AM" :> 22) @@ ("URLMEDIUM RISK10:15:30 AM" :> 25) @@
  ("URLMEDIUM RISKBLOCKED10:15:30 AM" :> 32) @@
  ("URLHIGH RISKBLOCKED10:15:30 AM" :> 30) @@ ("EMAILLOW RISK10:15:30 AM" :> 24) @@
  ("EMAILMEDIUM RISK10:15:30 AM" :> 27) @@
  ("EMAILMEDIUM RISKBLOCKED10:15:30 AM" :> 34) @@
  ("EMAILHIGH RISKBLOCKED10:15:30 AM" :> 32) @@ ("SMSLOW RISK10:15:30 AM" :> 22) @@
  ("SMSMEDIUM RISK10:15:30 AM" :> 25) @@ ("SMSMEDIUM RISKBLOCKED10:15:30 AM" :> 32) @@
  ("SMSHIGH RISKBLOCKED10:15:30 AM" :> 30) @@ ("Shortened URL detected" :> 22) @@
  ("Creates false urgency" :> 21) @@ ("Prize/lottery scam indicators" :> 29) @@
  ("Credential harvesting attempt" :> 29) @@ ("IP address instead of domain" :> 28) @@
  ("Suspicious domain pattern with free TLD" :> 39) @@
  ("Possible brand impersonation/typosquatting" :> 42) @@
  ("Suspicious URL parameters" :> 25) @@
  ("Possible homograph/character substitution attack" :> 48) @@
  ("Suspicious executable file type" :> 31) @@ ("Generic call-to-action" :> 22) @@
  ("Advance fee fraud (419 scam) indicators" :> 39) @@
  ("Account threat tactics" :> 22) @@ ("Government authority impersonation" :> 34) @@
  ("Generic greeting typical of mass scams" :> 38) @@
  ("Financial fraud language" :> 24) @@ ("High-pressure tactics" :> 21) @@
  ("Suspicious payment methods" :> 26) @@
  ("Secrecy tactics to avoid scrutiny" :> 33) @@
  ("Common spelling errors in scam emails" :> 37) @@
  ("Suspicious sender using free email service" :> 42) @@
  ("Romance scam indicators" :> 23) @@ ("Tech support scam indicators" :> 28) @@
  ("Prize scam indicators" :> 21) @@ ("Suspicious link request" :> 23) @@
  ("Too-good-to-be-true offers" :> 26) @@ ("Information harvesting attempt" :> 30) @@
  ("Subscription scam pattern" :> 25) @@
  ("Financial institution impersonation" :> 35) @@ ("Package delivery scam" :> 21) @@
  ("Government impersonation" :> 24) @@ ("Tech support scam" :> 17) @@
  ("Romance/social engineering scam" :> 31) @@
  ("Cryptocurrency/investment scam" :> 30) @@ ("Malformed URL structure" :> 23) @@
  ("High-risk top-level domain" :> 26) @@ ("Suspicious top-level domain" :> 27) @@
  ("Excessive subdomain nesting" :> 27) @@ ("Multiple subdomains detected" :> 28) @@
  ("Non-standard port number detected" :> 33) @@
  ("Insecure HTTP protocol for sensitive content" :> 44) @@
  ("Unusually long URL" :> 18) @@ ("Suspicious file path detected" :> 29) @@
  ("Excessive use of capital letters" :> 32) @@
  ("Excessive punctuation usage" :> 27) @@
  ("Suspicious email domain in content" :> 34) @@
  ("Large monetary amounts mentioned" :> 32) @@
  ("Short message with suspicious content" :> 37) @@
  ("Suspicious sender number pattern" :> 32)

\* String.prototype.length of a fragment (a line counts its two line breaks).
FragLen ==
  ("hello team" :> 12) @@ ("urgent notice" :> 15) @@ ("you won a prize" :> 17) @@
  ("verify password" :> 17) @@ ("reply stop to unsubscribe" :> 27) @@
  ("send $500" :> 11) @@ ("wow !!!" :> 9) @@ ("ATTENTIONPLEASE read" :> 22) @@
  ("meeting reminder" :> 18) @@ ("from: 12345" :> 13) @@
  ("mail x@bank.ru soon" :> 21) @@ ("ann.lee@corp-mail.com wrote this" :> 34) @@
  ("   " :> 3) @@ (Crowded :> 82) @@ (PrizeSms :> 120) @@ ("fraudExamples.email" :> 568) @@ ("fraudExamples.sms" :> 147) @@
  ("legitimate.email[2]" :> 289) @@ ("https://" :> 8) @@ ("http://" :> 7) @@
  ("www.github.com" :> 14) @@ ("secure-bankoamerica.tk" :> 22) @@
  ("httpbin.org" :> 11) @@ ("a.b.c.example.com" :> 17) @@ ("192.168.1.100" :> 13) @@
  ("[U+0430]pple.com" :> 9) @@ ("xn--pple-43d.com" :> 16) @@
  ("shop.example.top" :> 16) @@ (":8080" :> 5) @@ (":443" :> 4) @@ ("/" :> 1) @@
  ("/org/repo" :> 9) @@ ("/files/report.pdf" :> 17) @@ ("/login.php" :> 10) @@
  ("/login" :> 6) @@ ("/a{210}" :> 211) @@ ("?verify=suspended&urgent=true" :> 29) @@
  RenderLen

\* content.length
Length(content) ==
  LET len[i \in 0..Len(content)] ==
        IF i = 0 THEN 0 ELSE len[i - 1] + FragLen[content[i]]
  IN  len[Len(content)]

\* content.trim(): empty exactly when the content is nothing but white space.
TrimIsEmpty(content) == \A i \in DOMAIN content : content[i] = Blank

\* content.slice(0, n): the content it is cut from and the characters kept.
Slice(content, n) ==
  [of |-> content, chars |-> IF Length(content) < n THEN Length(content) ELSE n]

\* A slice that keeps one element more.
TakeOneMore(s, n) == SubSeq(s, 1, IF Len(s) < n + 1 THEN Len(s) ELSE n + 1)

\* Array.prototype.slice(0, n)
Take(s, n) == SubSeq(s, 1, IF Len(s) < n THEN Len(s) ELSE n)

\* The text contents: up to MaxFrags text fragments.
TextContents == UNION {[1..k -> TextFrags] : k \in 0..MaxFrags}

\* The URL contents: [scheme] host [port] [path] [query].
UrlContents ==
  {s \o <<h>> \o p \o a \o q :
     s \in {<<>>} \cup {<<x>> : x \in Schemes}, h \in Hosts,
     p \in {<<>>} \cup {<<x>> : x \in Ports},
     a \in {<<>>} \cup {<<x>> : x \in Paths},
     q \in {<<>>} \cup {<<x>> : x \in Queries}}

Contents == TextContents \cup UrlContents

\* ------------------------------------------------------------- doubles --
RECURSIVE Pow2Mod(_, _)
\* 2^(10 * k) modulo m.
Pow2Mod(k, m) == IF k = 0 THEN 1 % m ELSE (1024 * Pow2Mod(k - 1, m)) % m

\* The value (n * 2^60 + d) / (S * 2^60) is at least 2^e.
GePow2(S, n, d, e) ==
  IF e >= 0 THEN n > S * 2^e \/ (n = S * 2^e /\ d >= 0)
  ELSE n * 2^(0 - e) > S \/ (n * 2^(0 - e) = S /\ d >= 0)

\* The binary exponent e of the value, which lies in [2^e, 2^(e+1)), for the
\* values from 2^-8 up to 16.
Binade(S, n, d) ==
  IF GePow2(S, n, d, 0 - 2)
  THEN IF GePow2(S, n, d, 1)
       THEN IF GePow2(S, n, d, 2) THEN (IF GePow2(S, n, d, 3) THEN 3 ELSE 2) ELSE 1
       ELSE IF GePow2(S, n, d, 0) THEN 0
            ELSE IF GePow2(S, n, d, 0 - 1) THEN 0 - 1 ELSE 0 - 2
  ELSE IF GePow2(S, n, d, 0 - 5)
       THEN IF GePow2(S, n, d, 0 - 3) THEN 0 - 3
            ELSE IF GePow2(S, n, d, 0 - 4) THEN 0 - 4 ELSE 0 - 5
       ELSE IF GePow2(S, n, d, 0 - 6) THEN 0 - 6
            ELSE IF GePow2(S, n, d, 0 - 7) THEN 0 - 7 ELSE 0 - 8

\* 2^60 modulo 2 * S * 2^(e+8), for the scales and the exponents in use.
Residue ==
  [S \in {5, 20, 100, 300}, e \in (0 - 8)..3 |-> Pow2Mod(6, 2 * S * 2^(e + 8))]

\* The one element of a set of one element.  A value used more than once is
\* bound as the element of such a set, so that it is computed once.
The(set) == CHOOSE v \in set : TRUE

\* The multiple of M = S * 2^(e+8) nearest v.n * 2^60 + v.d, ties to the one of
\* sign f, or to the even one when f = 0.
Nearest(S, v, f, e) ==
  LET M    == S * 2^(e + 8)
      r    == (v.n * Residue[S, e] + v.d) % (2 * M)
      low  == r % M
      odd  == r >= M
      down == \/ 2 * low < M
              \/ 2 * low = M /\ (f < 0 \/ (f = 0 /\ ~odd))
  IN  [n |-> v.n, d |-> IF down THEN v.d - low ELSE v.d + (M - low)]

\* The double nearest the exact value (n * 2^60 + d + f') / (S * 2^60), where f'
\* is a fraction below one unit with the sign of f: a double in [2^e, 2^(e+1)) is
\* a multiple of 2^(e-52), so n * 2^60 + d becomes a multiple of S * 2^(e+8).
Round(S, n, d, f) ==
  The({IF v.n = 0 /\ v.d = 0 THEN v
       ELSE The({Nearest(S, v, f, e) : e \in {Binade(S, v.n, v.d)}}) :
       v \in {[n |-> n, d |-> d]}})

\* A decimal literal of the source: the double nearest n / S.
Lit(S, n) == Round(S, n, 0, 0)

\* x + y, both at scale S.
Add(S, x, y) ==
  The({Round(S, v[1].n + v[2].n, v[1].d + v[2].d, 0) : v \in {<<x, y>>}})

Sign(i) == IF i > 0 THEN 1 ELSE IF i < 0 THEN 0 - 1 ELSE 0

\* weight * safeContentMultiplier (line 254): weight, a multiple of 0.05, taken at
\* scale 20 and the multiplier m at scale 5, the product at scale 100.
Times(weight, m) ==
  The({Round(100, w.n * m.n, w.n * m.d + m.n * w.d, Sign(w.d * m.d)) :
       w \in {Lit(20, weight \div 5)}})

\* x >= y, both at one scale.
Ge(x, y) == x.n > y.n \/ (x.n = y.n /\ x.d >= y.d)

\* Math.min(x, y)
MathMin(x, y) == The({IF Ge(v[2], v[1]) THEN v[1] ELSE v[2] : v \in {<<x, y>>}})

\* ------------------------------------------------------- rule registry --
\* fraudPatterns (lines 100-215): pattern is the set of fragments in which the
\* regular expression finds a match; atEnd marks the pattern of line 128, whose
\* match must be followed by "?", "#" or the end of the content; weight is in
\* hundredths.
fraudPatterns ==
  [url |-> <<
     [pattern |-> {PrizeSms, Crowded, "fraudExamples.sms"}, atEnd |-> FALSE,
      reason |-> "Shortened URL detected", weight |-> 70],
     [pattern |-> {PrizeSms, Crowded, "urgent notice", "verify password", "fraudExamples.email",
                   "fraudExamples.sms", "?verify=suspended&urgent=true"},
      atEnd |-> FALSE, reason |-> "Creates false urgency", weight |-> 80],
     [pattern |-> {PrizeSms, Crowded, "you won a prize", "fraudExamples.email", "fraudExamples.sms", "Prize/lottery scam indicators",
                "Prize scam indicators"},
      atEnd |-> FALSE, reason |-> "Prize/lottery scam indicators", weight |-> 90],
     [pattern |-> {Crowded, "verify password", "mail x@bank.ru soon", "fraudExamples.email",
                   "legitimate.email[2]", "secure-bankoamerica.tk", "/login.php",
                   "/login", "?verify=suspended&urgent=true", "Account threat tactics"},
      atEnd |-> FALSE, reason |-> "Credential harvesting attempt", weight |-> 60],
     [pattern |-> {Crowded, "192.168.1.100"}, atEnd |-> FALSE,
      reason |-> "IP address instead of domain", weight |-> 95],
     [pattern |-> {Crowded, "secure-bankoamerica.tk"}, atEnd |-> FALSE,
      reason |-> "Suspicious domain pattern with free TLD", weight |-> 90],
     [pattern |-> {Crowded}, atEnd |-> FALSE,
      reason |-> "Possible brand impersonation/typosquatting", weight |-> 85],
     [pattern |-> {Crowded, "?verify=suspended&urgent=true"}, atEnd |-> FALSE,
      reason |-> "Suspicious URL parameters", weight |-> 70],
     [pattern |-> {Crowded, "[U+0430]pple.com", "xn--pple-43d.com"}, atEnd |-> FALSE,
      reason |-> "Possible homograph/character substitution attack", weight |-> 95],
     [pattern |-> {Crowded, "www.github.com", "a.b.c.example.com", "[U+0430]pple.com",
                   "xn--pple-43d.com"},
      atEnd |-> TRUE, reason |-> "Suspicious executable file type", weight |-> 80]
   >>,
   email |-> <<
     [pattern |-> {PrizeSms, Crowded, "urgent notice", "fraudExamples.email", "fraudExamples.sms",
                   "?verify=suspended&urgent=true"},
      atEnd |-> FALSE, reason |-> "Creates false urgency", weight |-> 80],
     [pattern |-> {}, atEnd |-> FALSE,
      reason |-> "Generic call-to-action", weight |-> 70],
     [pattern |-> {PrizeSms, Crowded, "you won a prize", "fraudExamples.email", "fraudExamples.sms", "Prize/lottery scam indicators",
                "Prize scam indicators"},
      atEnd |-> FALSE, reason |-> "Prize/lottery scam indicators", weight |-> 95],
     [pattern |-> {"fraudExamples.email"}, atEnd |-> FALSE,
      reason |-> "Advance fee fraud (419 scam) indicators", weight |-> 95],
     [pattern |-> {"fraudExamples.email", "?verify=suspended&urgent=true", CardHeader,
                "URLMEDIUM RISKBLOCKED10:15:30 AM",
                "URLHIGH RISKBLOCKED10:15:30 AM",
                "EMAILMEDIUM RISKBLOCKED10:15:30 AM",
                "EMAILHIGH RISKBLOCKED10:15:30 AM",
                "SMSMEDIUM RISKBLOCKED10:15:30 AM",
                "SMSHIGH RISKBLOCKED10:15:30 AM"},
      atEnd |-> FALSE, reason |-> "Account threat tactics", weight |-> 85],
     [pattern |-> {}, atEnd |-> FALSE,
      reason |-> "Government authority impersonation", weight |-> 90],
     [pattern |-> {"fraudExamples.email"}, atEnd |-> FALSE,
      reason |-> "Generic greeting typical of mass scams", weight |-> 60],
     [pattern |-> {"fraudExamples.email"}, atEnd |-> FALSE,
      reason |-> "Financial fraud language", weight |-> 85],
     [pattern |-> {"fraudExamples.email"}, atEnd |-> FALSE,
      reason |-> "High-pressure tactics", weight |-> 80],
     [pattern |-> {"fraudExamples.email", "Cryptocurrency/investment scam"}, atEnd |-> FALSE,
      reason |-> "Suspicious payment methods", weight |-> 90],
     [pattern |-> {"fraudExamples.email"}, atEnd |-> FALSE,
      reason |-> "Secrecy tactics to avoid scrutiny", weight |-> 70],
     [pattern |-> {PrizeSms, "fraudExamples.email", "fraudExamples.sms", "legitimate.email[2]"},
      atEnd |-> FALSE, reason |-> "Common spelling errors in scam emails",
      weight |-> 40],
     [pattern |-> {CardHeader}, atEnd |-> FALSE,
      reason |-> "Suspicious sender using free email service", weight |-> 60],
     [pattern |-> {"meeting reminder", "legitimate.email[2]", "Romance scam indicators",
                "Romance/social engineering scam"}, atEnd |-> FALSE,
      reason |-> "Romance scam indicators", weight |-> 70],
     [pattern |-> {}, atEnd |-> FALSE,
      reason |-> "Tech support scam indicators", weight |-> 80]
   >>,
   sms |-> <<
     [pattern |-> {PrizeSms, Crowded, "you won a prize", "fraudExamples.email", "fraudExamples.sms", "Prize/lottery scam indicators",
                "Prize scam indicators"},
      atEnd |-> FALSE, reason |-> "Prize scam indicators", weight |-> 95],
     [pattern |-> {PrizeSms, Crowded, "fraudExamples.sms", "https://", "http://", "httpbin.org", "Suspicious link request",
                "Insecure HTTP protocol for sensitive content"},
      atEnd |-> FALSE, reason |-> "Suspicious link request", weight |-> 80],
     [pattern |-> {PrizeSms, Crowded, "urgent notice", "fraudExamples.email", "fraudExamples.sms",
                   "?verify=suspended&urgent=true"},
      atEnd |-> FALSE, reason |-> "Creates false urgency", weight |-> 80],
     [pattern |-> {"fraudExamples.email", "Suspicious domain pattern with free TLD",
                "Suspicious sender using free email service",
                "Too-good-to-be-true offers"}, atEnd |-> FALSE,
      reason |-> "Too-good-to-be-true offers", weight |-> 60],
     [pattern |-> {Crowded, "verify password", "legitimate.email[2]", "secure-bankoamerica.tk",
                   "/login.php", "/login", "?verify=suspended&urgent=true", "Insecure HTTP protocol for sensitive content"},
      atEnd |-> FALSE, reason |-> "Information harvesting attempt", weight |-> 70],
     [pattern |-> {"reply stop to unsubscribe", "fraudExamples.sms", "Subscription scam pattern"}, atEnd |-> FALSE,
      reason |-> "Subscription scam pattern", weight |-> 70],
     [pattern |-> {Crowded, "mail x@bank.ru soon", "fraudExamples.email",
                   "secure-bankoamerica.tk", "?verify=suspended&urgent=true", CardHeader,
                "Advance fee fraud (419 scam) indicators",
                "Account threat tactics",
                "Financial fraud language",
                "Suspicious payment methods"},
      atEnd |-> FALSE, reason |-> "Financial institution impersonation",
      weight |-> 80],
     [pattern |-> {"Package delivery scam"}, atEnd |-> FALSE,
      reason |-> "Package delivery scam", weight |-> 70],
     [pattern |-> {"Government authority impersonation",
                "Government impersonation"}, atEnd |-> FALSE,
      reason |-> "Government impersonation", weight |-> 90],
     [pattern |-> {"Tech support scam indicators",
                "Tech support scam"}, atEnd |-> FALSE,
      reason |-> "Tech support scam", weight |-> 80],
     [pattern |-> {"meeting reminder", "legitimate.email[2]"}, atEnd |-> FALSE,
      reason |-> "Romance/social engineering scam", weight |-> 70],
     [pattern |-> {"Cryptocurrency/investment scam"}, atEnd |-> FALSE,
      reason |-> "Cryptocurrency/investment scam", weight |-> 80]
   >>]

\* pattern.test(content) for a rule of the table.
Test(rule, content) ==
  \E i \in DOMAIN content :
     /\ content[i] \in rule.pattern
     /\ rule.atEnd => (i = Len(content) \/ content[i + 1] \in Queries)

\* regex.test(content) for an unanchored expression, given as its set of fragments.
TestAny(pattern, content) == \E i \in DOMAIN content : content[i] \in pattern

\* safeIndicators.url (lines 228-230), all anchored at "^https://":
\* a well-known .com host; a one-label .edu/.gov/.org host followed by "/" or
\* the end; a one-label .com/.net/.org host followed by a document path and the end.
safeUrl(content) ==
  /\ Len(content) >= 2
  /\ content[1] = "https://"
  /\ \/ content[2] \in {"www.github.com"}
     \/ content[2] \in {"httpbin.org"} /\ (Len(content) = 2 \/ content[3] \in Paths)
     \/ /\ content[2] \in {"httpbin.org", "xn--pple-43d.com"}
        /\ Len(content) = 3
        /\ content[3] \in {"/files/report.pdf"}

\* safeIndicators.email (lines 233-235) and safeIndicators.sms (lines 238-240).
safeIndicators ==
  [email |-> <<{}, {"reply stop to unsubscribe", "fraudExamples.sms"}, {}>>,
   sms   |-> <<{"meeting reminder", "legitimate.email[2]"}, {},
               {"reply stop to unsubscribe", "fraudExamples.sms"}>>]

\* isSafeContent (line 246).  Every indicator carries the i flag, so testing
\* content.toLowerCase() matches what testing content matches.
isSafeContent(type, content) ==
  IF type = "url" THEN safeUrl(content)
  ELSE \E k \in DOMAIN safeIndicators[type] : TestAny(safeIndicators[type][k], content)

\* A multiplier that takes every content for safe-looking.
safeContentMultiplierAlways(type, content) == Lit(5, 3)

\* safeContentMultiplier (line 249), at scale 5: 0.6 or 1.0.
safeContentMultiplier(type, content) ==
  IF isSafeContent(type, content) THEN Lit(5, 3) ELSE Lit(5, 5)

\* One finding: the reason pushed, the weight of the table or of the check, in
\* hundredths, and the double added to totalWeight for it.
Finding(reason, weight, added) == [reason |-> reason, weight |-> weight, added |-> added]

\* patterns.forEach (lines 252-257): the matched rules in table order, each adding
\* weight * safeContentMultiplier.
RuleFindings(rules, m, content) ==
  The({[i \in DOMAIN matched |->
          Finding(matched[i].reason, matched[i].weight, Times(matched[i].weight, m))] :
       matched \in {SelectSeq(rules, LAMBDA rule : Test(rule, content))}})

\* ------------------------------------------------- structural analyzer --
Kind(f) ==
  CASE f \in Schemes -> "scheme" [] f \in Hosts -> "host" [] f \in Ports -> "port"
    [] f \in Paths -> "path" [] f \in Queries -> "query" [] OTHER -> "text"

Shape(s) == [i \in DOMAIN s |-> Kind(s[i])]

Optional(k) == {<<>>, <<k>>}

Tails == {p \o a \o q : p \in Optional("port"), a \in Optional("path"),
                        q \in Optional("query")}

\* The fragment of kind k in s, "" when there is none.
Part(s, k) ==
  IF \E i \in DOMAIN s : Kind(s[i]) = k
  THEN s[CHOOSE i \in DOMAIN s : Kind(s[i]) = k] ELSE ""

\* content.startsWith('http') (line 262)
startsWithHttp(content) ==
  content # <<>> /\ content[1] \in {"https://", "http://", "httpbin.org", Crowded}

\* A hostname that keeps the letters as they were typed.
HostnameAsTyped(h) == h

\* url.hostname of a host: lower case, a non-ASCII label in Punycode.
Hostname(h) == IF h = "[U+0430]pple.com" THEN "xn--pple-43d.com" ELSE h

\* url.hostname.split('.').length
LabelCount(hostname) ==
  CASE hostname \in {"a.b.c.example.com"} -> 5
    [] hostname \in {"192.168.1.100"} -> 4
    [] hostname \in {"www.github.com", "shop.example.top"} -> 3
    [] hostname \in {"secure-bankoamerica.tk", "httpbin.org", "xn--pple-43d.com"} -> 2
    [] OTHER -> 1

\* The suffix of the hostname from its last dot on, for hostname.endsWith(tld).
LastLabel(hostname) ==
  CASE hostname \in {"www.github.com", "a.b.c.example.com", "xn--pple-43d.com"} -> ".com"
    [] hostname = "secure-bankoamerica.tk" -> ".tk"
    [] hostname = "httpbin.org" -> ".org"
    [] hostname = "shop.example.top" -> ".top"
    [] hostname = "192.168.1.100" -> ".100"
    [] OTHER -> ""

\* new URL(input) (line 262).  A special scheme, a host and then port, path and
\* query parse; the port is dropped when it is the scheme's default, an empty
\* path is "/".  A host followed by a port, with no scheme before it, reads as a
\* scheme of its own with an opaque path and no host.  Anything else throws: no
\* scheme, or white space in the host.
ParseURL(input) ==
  IF \E t \in Tails : Shape(input) = <<"scheme", "host">> \o t
  THEN LET port == IF Part(input, "port") = ":443" /\ input[1] = "https://"
                   THEN "" ELSE Part(input, "port")
           path == IF Part(input, "path") = "" THEN "/" ELSE Part(input, "path")
           host == Hostname(input[2])
       IN  [ok |-> TRUE, protocol |-> input[1], hostname |-> host, port |-> port,
            pathname |-> <<path>>,
            href |-> SelectSeq(<<input[1], host, port, path, Part(input, "query")>>,
                               LAMBDA f : f # "")]
  ELSE IF Len(input) >= 2 /\ Kind(input[1]) = "host" /\ Kind(input[2]) = "port"
          /\ \E t \in Tails : Shape(input) = <<"host">> \o t
  THEN [ok |-> TRUE, protocol |-> input[1], hostname |-> "", port |-> "",
        pathname |-> SelectSeq(Tail(input), LAMBDA f : Kind(f) # "query"),
        href |-> input]
  ELSE [ok |-> FALSE]

\* A list of high-risk endings without .tk.
highRiskTldsPaid == {".ml", ".ga", ".cf"}


highRiskTlds == {".tk", ".ml", ".ga", ".cf"}

suspiciousTlds ==
  {".tk", ".ml", ".ga", ".cf", ".pw", ".top", ".work", ".click", ".download", ".review"}

\* suspiciousChars (line 287): the hostnames with a Cyrillic, Greek or accented
\* Latin letter.
suspiciousChars == {"[U+0430]pple.com"}

\* if (b) { matchedReasons.push(reason); totalWeight += w / 100 }
Cond(b, reason, w) == IF b THEN <<Finding(reason, w, Lit(100, w))>> ELSE <<>>

\* The checks on the parsed address (lines 264-316).
urlChecks(url) ==
  (IF LastLabel(url.hostname) \in highRiskTlds
   THEN Cond(TRUE, "High-risk top-level domain", 90)
   ELSE Cond(LastLabel(url.hostname) \in suspiciousTlds,
             "Suspicious top-level domain", 70))
  \o (IF LabelCount(url.hostname) > 4
      THEN Cond(TRUE, "Excessive subdomain nesting", 70)
      ELSE Cond(LabelCount(url.hostname) > 3, "Multiple subdomains detected", 40))
  \o Cond(url.hostname \in suspiciousChars,
          "Possible homograph/character substitution attack", 95)
  \o Cond(url.port # "" /\ url.port # ":80" /\ url.port # ":443",
          "Non-standard port number detected", 60)
  \o Cond(url.protocol = "http://"
            /\ TestAny({"mail x@bank.ru soon", "fraudExamples.email",
                        "secure-bankoamerica.tk", "/login.php", "/login", Crowded,
                        "Account threat tactics", "Suspicious payment methods",
                        "Insecure HTTP protocol for sensitive content"}, url.href),
          "Insecure HTTP protocol for sensitive content", 80)
  \o Cond(Length(url.href) > 200, "Unusually long URL", 50)
  \o Cond(TestAny({"/login.php"}, url.pathname), "Suspicious file path detected", 70)

\* URL-specific checks that add nothing when the address does not parse, and some
\* that go on to the length check after a failure.
urlFindingsSilent(content) ==
  The({IF url.ok THEN urlChecks(url) ELSE <<>> :
       url \in {ParseURL(IF startsWithHttp(content) THEN content
                         ELSE <<"https://">> \o content)}})

urlFindingsContinuing(content) ==
  The({IF url.ok THEN urlChecks(url)
       ELSE Cond(TRUE, "Malformed URL structure", 80)
            \o Cond(Length(content) > 200, "Unusually long URL", 50) :
       url \in {ParseURL(IF startsWithHttp(content) THEN content
                         ELSE <<"https://">> \o content)}})

\* The URL-specific checks (lines 260-321).
urlFindings(content) ==
  The({IF url.ok THEN urlChecks(url) ELSE Cond(TRUE, "Malformed URL structure", 80) :
       url \in {ParseURL(IF startsWithHttp(content) THEN content
                         ELSE <<"https://">> \o content)}})

\* ------------------------------------------- category-specific heuristics --
\* The email-specific checks (lines 324-348).  Ten capital letters in a row are
\* found in a fragment, or where a badge, which ends with AM, meets a badge that
\* begins with eight of them.
emailFindings(content) ==
  Cond(\/ TestAny({"ATTENTIONPLEASE read", "fraudExamples.sms", PrizeSms,
                    "URLMEDIUM RISKBLOCKED10:15:30 AM", "URLHIGH RISKBLOCKED10:15:30 AM",
                    "EMAILMEDIUM RISK10:15:30 AM", "EMAILMEDIUM RISKBLOCKED10:15:30 AM",
                    "EMAILHIGH RISKBLOCKED10:15:30 AM", "SMSMEDIUM RISKBLOCKED10:15:30 AM",
                    "SMSHIGH RISKBLOCKED10:15:30 AM"}, content)
       \/ \E i \in 1..(Len(content) - 1) :
             /\ \E type \in Types : \E k \in 1..4 : content[i] = badges[type][k]
             /\ content[i + 1] \in {"EMAILLOW RISK10:15:30 AM", "URLMEDIUM RISK10:15:30 AM",
                                    "SMSMEDIUM RISK10:15:30 AM"},
       "Excessive use of capital letters", 40)
  \o Cond(TestAny({"wow !!!"}, content), "Excessive punctuation usage", 30)
  \o Cond(TestAny({"mail x@bank.ru soon"}, content),
          "Suspicious email domain in content", 70)
  \o Cond(TestAny({"send $500", "fraudExamples.email", "fraudExamples.sms", PrizeSms},
                  content),
          "Large monetary amounts mentioned", 60)

\* SMS-specific checks in which a short message counts by itself.
smsFindingsStandalone(content, found) ==
  Cond(Length(content) < 50, "Short message with suspicious content", 30)
  \o Cond(TestAny({"from: 12345"}, content) \/ TestAny({}, content),
          "Suspicious sender number pattern", 60)

\* The SMS-specific checks (lines 351-363); found is matchedReasons.length so far.
smsFindings(content, found) ==
  Cond(Length(content) < 50 /\ found > 0, "Short message with suspicious content", 30)
  \o Cond(TestAny({"from: 12345"}, content) \/ TestAny({}, content),
          "Suspicious sender number pattern", 60)

\* ------------------------------------------------ aggregator, classifier --
\* The checks of the content type, after found rules matched.
typeFindings(type, content, found) ==
  CASE type = "url" -> urlFindings(content)
    [] type = "email" -> emailFindings(content)
    [] type = "sms" -> smsFindings(content, found)

\* Everything pushed on matchedReasons, with the weight added for it, in order.
Findings(type, content) ==
  The({rules \o typeFindings(type, content, Len(rules)) :
       rules \in {The({RuleFindings(fraudPatterns[type], m, content) :
                        m \in {safeContentMultiplier(type, content)}})}})

\* totalWeight after the findings fs are added to it, one by one.
SumWeights(fs) ==
  LET sum[i \in 0..Len(fs)] ==
        IF i = 0 THEN [n |-> 0, d |-> 0] ELSE Add(100, sum[i - 1], fs[i].added)
  IN  sum[Len(fs)]

\* The reasons of the findings fs, in order.
Reasons(fs) == [i \in DOMAIN fs |-> fs[i].reason]

\* totalWeight and matchedReasons at line 365, and the findings they come from.
Score(type, content) ==
  The({[totalWeight |-> SumWeights(fs), matchedReasons |-> Reasons(fs), findings |-> fs] :
       fs \in {Findings(type, content)}})

\* A classifier whose thresholds are exclusive: a score on a threshold falls into
\* the level below.
threatExclusive(total) ==
  IF ~Ge(Lit(100, 200), total) THEN "high"
  ELSE IF ~Ge(Lit(100, 120), total) THEN "medium"
  ELSE IF ~Ge(Lit(100, 60), total) THEN "low"
  ELSE "none"

\* The threat level of a score (lines 369-373); "none" where the code returns null.
threat(total) ==
  IF Ge(total, Lit(100, 200)) THEN "high"
  ELSE IF Ge(total, Lit(100, 120)) THEN "medium"
  ELSE IF Ge(total, Lit(100, 60)) THEN "low"
  ELSE "none"

\* A confidence without the ceiling of 0.99.
confidenceUncapped(total, count) ==
  LET baseConfidence == MathMin(Round(300, total.n, total.d, 0), Lit(300, 294))
      patternBonus   == MathMin(Round(300, count * 15, count * Lit(300, 15).d, 0),
                                Lit(300, 45))
  IN  Add(300, baseConfidence, patternBonus)

\* A confidence without the bonus for the number of reasons.
confidenceNoBonus(total, count) ==
  MathMin(MathMin(Round(300, total.n, total.d, 0), Lit(300, 294)), Lit(300, 297))

\* confidence (lines 376-378), at scale 300: total / 3 is total's n and d read at
\* scale 300, rounded; count * 0.05 is the product with the double 0.05.
confidence(total, count) ==
  LET baseConfidence == MathMin(Round(300, total.n, total.d, 0), Lit(300, 294))
      patternBonus   == MathMin(Round(300, count * 15, count * Lit(300, 15).d, 0),
                                Lit(300, 45))
  IN  MathMin(Add(300, baseConfidence, patternBonus), Lit(300, 297))

\* A decision that blocks every Medium result.
blockedFromMedium(level, conf) == level = "high" \/ level = "medium"

\* blocked (line 388)
blocked(level, conf) ==
  level = "high" \/ (level = "medium" /\ ~Ge(Lit(300, 225), conf))

\* No alert.
Null == [null |-> TRUE]

\* A classifier that does not return early for an empty list of reasons.
ClassifyUnguarded(type, content, score, now) ==
  The({[id |-> now, type |-> type, content |-> Slice(content, 300),
        threat |-> level, confidence |-> conf,
        reasons |-> Take(score.matchedReasons, 10),
        timestamp |-> now, blocked |-> blocked(level, conf)] :
       level \in {threat(score.totalWeight)},
       conf \in {confidence(score.totalWeight, Len(score.matchedReasons))}})

\* A classifier that misses the first reason on every other alert, as a pattern
\* that keeps its position between calls would.
ClassifyAlternating(type, content, score, now) ==
  The({IF Len(score.matchedReasons) = 0 THEN Null
       ELSE IF level = "none" THEN Null
       ELSE [id |-> now, type |-> type, content |-> Slice(content, 300),
             threat |-> level, confidence |-> conf,
             reasons |-> Take(IF now % 2 = 1 THEN Tail(score.matchedReasons)
                              ELSE score.matchedReasons, 10),
             timestamp |-> now, blocked |-> blocked(level, conf)] :
       level \in {threat(score.totalWeight)},
       conf \in {confidence(score.totalWeight, Len(score.matchedReasons))}})

\* Lines 365-389: the alert made of a score, or Null.
Classify(type, content, score, now) ==
  The({IF Len(score.matchedReasons) = 0 THEN Null
       ELSE IF level = "none" THEN Null
       ELSE [id |-> now, type |-> type, content |-> Slice(content, 300),
             threat |-> level, confidence |-> conf,
             reasons |-> Take(score.matchedReasons, 10),
             timestamp |-> now, blocked |-> blocked(level, conf)] :
       level \in {threat(score.totalWeight)},
       conf \in {confidence(score.totalWeight, Len(score.matchedReasons))}})

\* An evaluation that does not look at the protection flag.
analyzeContentUnflagged(enabled, type, content, now) ==
  IF TrimIsEmpty(content) THEN Null
  ELSE The({Classify(type, content, score, now) : score \in {Score(type, content)}})

\* analyzeContent (lines 218-390) as the closure of a render in which isEnabled
\* had the value enabled; now stands for Date.now() and Math.random() in the id.
analyzeContent(enabled, type, content, now) ==
  IF ~enabled \/ TrimIsEmpty(content) THEN Null
  ELSE The({Classify(type, content, score, now) : score \in {Score(type, content)}})

\* ------------------------------------------------------------ component --
VARIABLES
  isEnabled,            \* the parent's fraudPreventionEnabled, passed as a prop
  alerts,               \* the alert history, newest first
  showWarningPopup,     \* the alert of the warning popup, or Null
  blockedCount,
  interceptedAttempts,
  testContent,          \* the manual test panel
  testType,
  isAnalyzing,
  pending,              \* the timers of line 497 that are set: their closures
  fraudResult,          \* the parent's fraudResults[0]: the last FraudResult handed
                        \* to onFraudComplete, or Null
  clock,                \* Date.now(), in alerts made: each alert takes a tick
  lastCall,             \* history: the last call of analyzeContent, or Null
  cleared,              \* history: the clock when the history was last cleared
  opened,               \* history: the alert whose address window.open was last
                        \* called for, or Null
  addedNodes,           \* the records of the MutationObserver that wait for its
                        \* callback: the ids of the alerts whose entries were added
  inputs,               \* PhishingDetection: urlInput, emailInput, smsInput
  isLoading,            \* the parent's isLoading
  requests,             \* the calls of PhishingDetection's analyzeContent in flight
  phishingResults,      \* the parent's phishingResults, newest first
  calls                 \* history: the calls of it in their order, and whether
                        \* each has ended

\* The state that PhishingDetection reads and writes.
detection == <<inputs, isLoading, requests, phishingResults, calls>>

vars == <<isEnabled, alerts, showWarningPopup, blockedCount, interceptedAttempts,
          testContent, testType, isAnalyzing, pending, fraudResult, clock, lastCall,
          cleared, opened, addedNodes, detection>>

\* fraudExamples (lines 530-550)
fraudExamples ==
  [email |-> <<"fraudExamples.email">>,
   sms   |-> <<"fraudExamples.sms">>,
   url   |-> <<"https://", "secure-bankoamerica.tk", "/login",
               "?verify=suspended&urgent=true">>]

\* The call analyzeContent(type, content) of a closure made while isEnabled was
\* enabled, with what it computed on the way.
Call(enabled, type, content) ==
  [isEnabled |-> enabled, type |-> type, content |-> content,
   score |-> Score(type, content),
   result |-> analyzeContent(enabled, type, content, clock)]

\* A history that keeps ten older entries, and one that puts the new entry last.
prependKeepingTen(alert, prev) == <<alert>> \o Take(prev, 10)

prependLast(alert, prev) == Take(prev, 9) \o <<alert>>

\* setAlerts(prev => [alert, ...prev.slice(0, 9)]) (lines 408, 453, 502)
prepend(alert, prev) == <<alert>> \o Take(prev, 9)

\* A mapping that reports a Medium alert as safe.
predictionLenient(level) == IF level = "high" THEN "malicious" ELSE "safe"

\* prediction (lines 421, 514)
prediction(level) ==
  IF level = "high" THEN "malicious" ELSE IF level = "medium" THEN "suspicious" ELSE "safe"

\* fraudResult (lines 417-425, 510-518), the parent being handed it (line 426):
\* onFraudComplete is the parent's handleFraudComplete.
FraudResult(alert) ==
  [id |-> alert.id, type |-> alert.type, content |-> alert.content,
   prediction |-> prediction(alert.threat), confidence |-> alert.confidence,
   reasons |-> alert.reasons, timestamp |-> alert.timestamp]

\* A handler that counts a blocked alert and not the attempt.
InterceptUncounted(alert) ==
  /\ interceptedAttempts' = interceptedAttempts
  /\ alerts' = prepend(alert, alerts)
  /\ blockedCount' = IF alert.blocked THEN blockedCount + 1 ELSE blockedCount
  /\ showWarningPopup' = alert
  /\ fraudResult' = FraudResult(alert)
  /\ addedNodes' = IF isEnabled THEN addedNodes \cup {alert.id} ELSE addedNodes
  /\ clock' = clock + 1

\* What the click handler and the timer callback do with an alert (lines 403-429,
\* 500-523).  The entry that the list shows for the alert (line 905) is an added
\* node, of which the observer of line 441 makes a record while it is connected.
Intercept(alert) ==
  /\ interceptedAttempts' = interceptedAttempts + 1
  /\ alerts' = prepend(alert, alerts)
  /\ blockedCount' = IF alert.blocked THEN blockedCount + 1 ELSE blockedCount
  /\ showWarningPopup' = alert
  /\ fraudResult' = FraudResult(alert)
  /\ addedNodes' = IF isEnabled THEN addedNodes \cup {alert.id} ELSE addedNodes
  /\ clock' = clock + 1

\* A call that returned null: nothing is set.
Ignore ==
  UNCHANGED <<alerts, showWarningPopup, blockedCount, interceptedAttempts, fraudResult,
              clock, addedNodes>>

\* Alerts still to be produced before max, one kept for each pending timer.
Room(max) == clock + Len(pending) < max

Init ==
  /\ isEnabled = TRUE
  /\ alerts = <<>>
  /\ showWarningPopup = Null
  /\ blockedCount = 0
  /\ interceptedAttempts = 0
  /\ testContent = <<>>
  /\ testType = "email"
  /\ isAnalyzing = FALSE
  /\ pending = <<>>
  /\ fraudResult = Null
  /\ clock = 0
  /\ lastCall = Null
  /\ cleared = 0
  /\ opened = Null
  /\ addedNodes = {}
  /\ inputs = [type \in Types |-> <<>>]
  /\ isLoading = FALSE
  /\ requests = {}
  /\ phishingResults = <<>>
  /\ calls = <<>>

\* The Switch and the Enable Protection button (lines 759, 986): the parent sets
\* fraudPreventionEnabled.  The effect of line 438 disconnects its observer (line
\* 466), which drops the records that wait.
onToggle ==
  /\ isEnabled' = ~isEnabled
  /\ addedNodes' = {}
  /\ UNCHANGED <<alerts, showWarningPopup, blockedCount, interceptedAttempts,
                 testContent, testType, isAnalyzing, pending, fraudResult, clock, lastCall,
                 cleared, opened>>
  /\ UNCHANGED detection

\* handleClick (lines 396-431), registered while isEnabled (line 394): a click on
\* a link whose href is href.
handleClick(href, max) ==
  /\ isEnabled
  /\ Room(max)
  /\ \E call \in {Call(isEnabled, "url", href)} :
        /\ lastCall' = call
        /\ IF call.result # Null THEN Intercept(call.result) ELSE Ignore
  /\ UNCHANGED <<isEnabled, testContent, testType, isAnalyzing, pending, cleared, opened>>
  /\ UNCHANGED detection

\* The MutationObserver callback (lines 441-463) for an added element whose
\* textContent is text; handled are the records it is called for.
mutation(text, handled) ==
  IF Length(text) > 50 /\ TestAny({"ann.lee@corp-mail.com wrote this"}, text)
  THEN \E call \in {Call(isEnabled, "email", text)} :
         /\ lastCall' = call
         /\ IF call.result # Null
            THEN /\ alerts' = prepend(call.result, alerts)
                 /\ showWarningPopup' = IF call.result.threat = "high"
                                        THEN call.result ELSE showWarningPopup
                 /\ addedNodes' = (addedNodes \ handled) \cup {call.result.id}
                 /\ clock' = clock + 1
                 /\ UNCHANGED <<blockedCount, interceptedAttempts, fraudResult>>
            ELSE /\ addedNodes' = addedNodes \ handled
                 /\ UNCHANGED <<alerts, showWarningPopup, blockedCount,
                                interceptedAttempts, fraudResult, clock>>
  ELSE /\ addedNodes' = addedNodes \ handled
       /\ UNCHANGED <<alerts, showWarningPopup, blockedCount, interceptedAttempts,
                      fraudResult, clock, lastCall>>

\* The callback, observing while isEnabled (line 439): an element whose
\* textContent is text was added to the page.
observe(text, max) ==
  /\ isEnabled
  /\ Room(max)
  /\ mutation(text, {})
  /\ UNCHANGED <<isEnabled, testContent, testType, isAnalyzing, pending, cleared, opened>>
  /\ UNCHANGED detection

\* The textContent of the node that is added for a new alert (lines 905-958):
\* the badges and the time, the content, the label and the first three reasons;
\* for the first alert of a list the node is the whole card (line 884).
Node(alert) ==
  (IF alert.id = cleared THEN <<CardHeader>> ELSE <<>>)
    \o <<Badge(alert)>> \o alert.content.of \o <<"Threats detected:">>
    \o Take(alert.reasons, 3)

\* The callback for the entry of an alert of the list.  An entry whose content
\* was cut at 300 characters is left to wait.
observeRendered(max) ==
  /\ isEnabled
  /\ Room(max)
  /\ \E i \in DOMAIN alerts :
        /\ alerts[i].id \in addedNodes
        /\ alerts[i].content.chars = Length(alerts[i].content.of)
        /\ mutation(Node(alerts[i]), {alerts[i].id})
  /\ UNCHANGED <<isEnabled, testContent, testType, isAnalyzing, pending, cleared, opened>>
  /\ UNCHANGED detection

\* handleDismissPopup (lines 469-471); its buttons are shown with the popup.
handleDismissPopup ==
  /\ showWarningPopup # Null
  /\ showWarningPopup' = Null
  /\ UNCHANGED <<isEnabled, alerts, blockedCount, interceptedAttempts, testContent,
                 testType, isAnalyzing, pending, fraudResult, clock, lastCall, cleared,
                 opened>>
  /\ UNCHANGED <<addedNodes, detection>>

\* clearAlerts (lines 484-488)
clearAlerts ==
  /\ alerts' = <<>>
  /\ blockedCount' = 0
  /\ interceptedAttempts' = 0
  /\ cleared' = clock
  /\ addedNodes' = {}
  /\ UNCHANGED <<isEnabled, showWarningPopup, testContent, testType, isAnalyzing,
                 pending, fraudResult, clock, lastCall, opened>>
  /\ UNCHANGED detection

\* The type tabs (lines 1015, 1206)
setTestType(type) ==
  /\ testType' = type
  /\ UNCHANGED <<isEnabled, alerts, showWarningPopup, blockedCount,
                 interceptedAttempts, testContent, isAnalyzing, pending, fraudResult,
                 clock, lastCall, cleared, opened>>
  /\ UNCHANGED <<addedNodes, detection>>

\* The text area and the Clear button (lines 1037-1039, 1088-1089), disabled
\* while isAnalyzing.
setTestContent(content) ==
  /\ ~isAnalyzing
  /\ testContent' = content
  /\ UNCHANGED <<isEnabled, alerts, showWarningPopup, blockedCount,
                 interceptedAttempts, testType, isAnalyzing, pending, fraudResult,
                 clock, lastCall, cleared, opened>>
  /\ UNCHANGED <<addedNodes, detection>>

\* The Test This Example buttons (lines 1121-1124, 1145-1148, 1169-1172).
loadExample(type) ==
  /\ testType' = type
  /\ testContent' = fraudExamples[type]
  /\ UNCHANGED <<isEnabled, alerts, showWarningPopup, blockedCount,
                 interceptedAttempts, isAnalyzing, pending, fraudResult, clock,
                 lastCall, cleared, opened>>
  /\ UNCHANGED <<addedNodes, detection>>

\* A button that isAnalyzing does not disable.
AnalyzeButtonAlways == ~TrimIsEmpty(testContent) /\ isEnabled

\* The Analyze for Fraud button (line 1047): disabled={!testContent.trim() ||
\* isAnalyzing || !isEnabled}.
AnalyzeButton == ~TrimIsEmpty(testContent) /\ ~isAnalyzing /\ isEnabled

\* handleManualTest (lines 491-497) behind its button: sets the timer, whose
\* callback closes over this render's analyzeContent, testType, testContent.
handleManualTest(max) ==
  /\ AnalyzeButton
  /\ ~TrimIsEmpty(testContent)
  /\ clock + Len(pending) < max
  /\ isAnalyzing' = TRUE
  /\ pending' = Append(pending, [isEnabled |-> isEnabled, testType |-> testType,
                                 testContent |-> testContent])
  /\ UNCHANGED <<isEnabled, alerts, showWarningPopup, blockedCount, interceptedAttempts,
                 testContent, testType, fraudResult, clock, lastCall, cleared, opened>>
  /\ UNCHANGED <<addedNodes, detection>>

\* The timer callback (lines 497-526), 1500 ms later.
ManualTestFire ==
  /\ pending # <<>>
  /\ \E call \in {Call(pending[1].isEnabled, pending[1].testType, pending[1].testContent)} :
        /\ lastCall' = call
        /\ IF call.result # Null THEN Intercept(call.result) ELSE Ignore
  /\ isAnalyzing' = FALSE
  /\ pending' = Tail(pending)
  /\ UNCHANGED <<isEnabled, testContent, testType, cleared, opened>>
  /\ UNCHANGED detection

\* showWarningPopup.content.match(/https?:\/\/[^\s]+/) (line 476) on the content
\* of an alert: a scheme and a character after it, among the first chars
\* characters.  The texts with an address have it at 0 (Crowded) and at 96.
urlMatch(content) ==
  \E i \in DOMAIN content.of :
    \E at \in {Length(SubSeq(content.of, 1, i - 1))} :
      \/ /\ content.of[i] \in Schemes
         /\ i < Len(content.of)
         /\ content.of[i + 1] # Blank
         /\ at + FragLen[content.of[i]] < content.chars
      \/ content.of[i] = Crowded /\ at + 8 <= content.chars
      \/ content.of[i] \in {"fraudExamples.sms", PrizeSms} /\ at + 104 <= content.chars

\* handleProceedAnyway (lines 473-482); its button is shown for a URL alert (line
\* 867).  window.open is called with the address in the content, if there is one.
handleProceedAnyway ==
  /\ showWarningPopup # Null
  /\ showWarningPopup.type = "url"
  /\ opened' = IF urlMatch(showWarningPopup.content) THEN showWarningPopup ELSE opened
  /\ showWarningPopup' = Null
  /\ UNCHANGED <<isEnabled, alerts, blockedCount, interceptedAttempts, testContent,
                 testType, isAnalyzing, pending, fraudResult, clock, lastCall, cleared>>
  /\ UNCHANGED <<addedNodes, detection>>

\* ---------------------------------------------------------- environments --
\* link.href is the serialization of the parsed address.
Href(address) == ParseURL(address).href

\* The links of the page.
Links ==
  {Href(<<"https://", "www.github.com", "/org/repo">>),
   Href(<<"https://", "shop.example.top", "/">>),
   Href(fraudExamples.url)}

\* The texts of the elements added to the page.
PageTexts ==
  {<<"ann.lee@corp-mail.com wrote this">>,
   <<"ann.lee@corp-mail.com wrote this", "meeting reminder">>}

\* What the user types in the text area.
TypedContents ==
  {<<>>, <<Blank>>}

\* The component on a page, in use.
Next ==
  \/ onToggle
  \/ \E href \in Links : handleClick(href, MaxAlerts)
  \/ \E text \in PageTexts : observe(text, MaxAlerts)
  \/ observeRendered(MaxAlerts)
  \/ handleDismissPopup
  \/ handleProceedAnyway
  \/ clearAlerts
  \/ \E type \in Types : setTestType(type)
  \/ \E content \in TypedContents : setTestContent(content)
  \/ \E type \in Types : loadExample(type)
  \/ handleManualTest(MaxAlerts)
  \/ ManualTestFire

Spec == Init /\ [][Next]_vars

\* The manual test panel and its timer: setTimeout(..., 1500) (line 497) runs the
\* callback of a timer that is set, and nothing cancels it.
NextTimer ==
  \/ onToggle
  \/ handleDismissPopup
  \/ \E type \in Types : setTestType(type)
  \/ \E content \in TypedContents : setTestContent(content)
  \/ \E type \in Types : loadExample(type)
  \/ handleManualTest(MaxAlerts)
  \/ ManualTestFire

SpecTimer == Init /\ [][NextTimer]_vars /\ WF_vars(ManualTestFire)

\* ---------------------------------------------------- the detection panel --
\* PhishingDetection (components/PhishingDetection.tsx): three inputs and the
\* async function analyzeContent, which asks the backend and, when that fails,
\* classifies by itself.  The state of FraudPrevention:
prevention ==
  <<isEnabled, alerts, showWarningPopup, blockedCount, interceptedAttempts, testContent,
    testType, isAnalyzing, pending, fraudResult, clock, lastCall, cleared, opened,
    addedNodes>>

\* The calls of analyzeContent that are followed.
MaxCalls == 2

\* What is typed into the inputs of the panel.
DetectContents ==
  {<<Blank>>, <<"fraudExamples.email">>, <<"https://", "a.b.c.example.com", "/login">>}

\* Math.random(), in hundredths.
Randoms == {0, 99}

\* What response.json() resolves with: the answer of the backend, or null.
ApiResults ==
  {[prediction |-> "malicious", confidence |-> 9100,
    reasons |-> <<"Known phishing domain">>],
   Null}

\* The fragments that include a word; for the words that lines 139-142, 146-149
\* and 172-182 look for in content.toLowerCase(), whatever their case.
Including ==
  ("urgent" :> {"urgent notice", Crowded, "fraudExamples.email",
                "?verify=suspended&urgent=true"}) @@
  ("verify" :> {"verify password", "?verify=suspended&urgent=true"}) @@
  ("click here" :> {}) @@ ("limited time" :> {}) @@
  ("suspended" :> {"fraudExamples.email", "?verify=suspended&urgent=true"}) @@
  ("winner" :> {Crowded}) @@
  ("congratulations" :> {PrizeSms, "fraudExamples.email", "fraudExamples.sms"}) @@
  ("prince" :> {}) @@ ("click" :> {PrizeSms, "fraudExamples.sms"}) @@
  ("bit.ly" :> {Crowded, PrizeSms, "fraudExamples.sms"}) @@ ("tinyurl" :> {}) @@
  ("phishing-example" :> {}) @@ ("https://" :> {"https://"}) @@
  (".com" :> {"ann.lee@corp-mail.com wrote this", "www.github.com",
              "a.b.c.example.com", "[U+0430]pple.com", "xn--pple-43d.com"}) @@
  (".org" :> {"httpbin.org"}) @@ (".net" :> {}) @@
  ("@" :> {"mail x@bank.ru soon", "ann.lee@corp-mail.com wrote this"})

\* content.includes(word), content.toLowerCase().includes(word)
includes(content, word) == TestAny(Including[word], content)

\* The full stops of the fragments that have any.
Dots ==
  ("mail x@bank.ru soon" :> 1) @@ ("ann.lee@corp-mail.com wrote this" :> 2) @@
  (Crowded :> 6) @@ (PrizeSms :> 2) @@ ("fraudExamples.email" :> 7) @@
  ("fraudExamples.sms" :> 3) @@ ("legitimate.email[2]" :> 2) @@
  ("www.github.com" :> 2) @@ ("secure-bankoamerica.tk" :> 1) @@ ("httpbin.org" :> 1) @@
  ("a.b.c.example.com" :> 4) @@ ("192.168.1.100" :> 3) @@ ("[U+0430]pple.com" :> 1) @@
  ("xn--pple-43d.com" :> 1) @@ ("shop.example.top" :> 2) @@
  ("/files/report.pdf" :> 1) @@ ("/login.php" :> 1)

\* content.split('.').length
splitLength(content) ==
  LET dots[i \in 0..Len(content)] ==
        IF i = 0 THEN 0
        ELSE dots[i - 1] + (IF content[i] \in DOMAIN Dots THEN Dots[content[i]] ELSE 0)
  IN  dots[Len(content)] + 1

\* isSuspicious (lines 139-144)
isSuspicious(content) ==
  \E word \in {"urgent", "verify", "click here", "limited time", "bit.ly", "tinyurl"} :
     includes(content, word)

\* isMalicious (lines 146-150)
isMalicious(content) ==
  \E word \in {"suspended", "winner", "congratulations", "prince", "phishing-example"} :
     includes(content, word)

\* prediction (lines 152-161)
fallbackPrediction(content) ==
  IF isMalicious(content) THEN "malicious"
  ELSE IF isSuspicious(content) THEN "suspicious" ELSE "safe"

\* confidence (lines 153-161), in ten-thousandths.
fallbackConfidence(content, rand) ==
  IF isMalicious(content) THEN 8500 + 14 * rand
  ELSE IF isSuspicious(content) THEN 6000 + 30 * rand ELSE 7000 + 25 * rand

\* A reason, pushed if its condition holds.
Push(condition, reason) == IF condition THEN <<reason>> ELSE <<>>

\* reasons (lines 163-186)
fallbackReasons(type, content) ==
  LET reasons ==
        IF type = "url"
        THEN Push(includes(content, "https://"), "Uses HTTPS encryption")
             \o Push(includes(content, "bit.ly") \/ includes(content, "tinyurl"),
                     "Shortened URL detected")
             \o Push(~includes(content, ".com") /\ ~includes(content, ".org")
                       /\ ~includes(content, ".net"), "Unusual domain extension")
             \o Push(splitLength(content) > 4, "Suspicious subdomain structure")
        ELSE IF type = "email"
        THEN Push(includes(content, "urgent"), "Creates false urgency")
             \o Push(includes(content, "click here"), "Generic call-to-action")
             \o Push(includes(content, "verify"), "Requests personal verification")
             \o Push(~includes(content, "@"), "Missing proper email formatting")
        ELSE Push(Length(content) < 50, "Unusually short message")
             \o Push(includes(content, "winner"), "Prize/lottery scam indicators")
             \o Push(includes(content, "click"), "Suspicious link request")
  IN  IF reasons = <<>> THEN <<"No obvious threat indicators found">> ELSE reasons

\* result (lines 118-127, 188-212) without its id, its timestamp and its
\* details; call is history: the call that made it.
PhishingResult(request, predicted, sure, reasons) ==
  [call |-> request.call, type |-> request.type,
   content |-> Slice(request.content, 200), prediction |-> predicted,
   confidence |-> sure, reasons |-> reasons]

\* finally (lines 220-222): the call is over.
Finally(request) ==
  /\ isLoading' = FALSE
  /\ requests' = requests \ {request}
  /\ calls' = [calls EXCEPT ![request.call].ended = TRUE]

\* onPhishingComplete(result) (lines 129, 214), which is the parent's
\* handlePhishingComplete, and the input of the type cleared (lines 132-134,
\* 217-219).
complete(request, result) ==
  /\ phishingResults' = <<result>> \o phishingResults
  /\ inputs' = [inputs EXCEPT ![request.type] = <<>>]
  /\ Finally(request)

\* A catch block that logs the error and does nothing else.
fallbackSilent(request, rand) ==
  /\ Finally(request)
  /\ UNCHANGED <<inputs, phishingResults>>

\* catch (lines 136-219): the local classifier.
fallback(request, rand) ==
  complete(request,
           PhishingResult(request, fallbackPrediction(request.content),
                          fallbackConfidence(request.content, rand),
                          fallbackReasons(request.type, request.content)))

\* onChange of an input (lines 285, 318, 353), while calls are followed.
setInput(type, content) ==
  /\ Len(calls) < MaxCalls
  /\ inputs' = [inputs EXCEPT ![type] = content]
  /\ UNCHANGED <<isLoading, requests, phishingResults, calls>>
  /\ UNCHANGED prevention

\* analyzeContent(type, content) up to its first await (lines 90-108).  The
\* buttons that call it (lines 293, 331, 366) pass the input of their type and
\* are disabled while that is blank or isLoading is set, which the parent
\* shares with its other panels; the function is followed for every call.
analyzePhishing(type, content) ==
  /\ Len(calls) < MaxCalls
  /\ calls' = Append(calls, [type |-> type, content |-> content,
                             ended |-> TrimIsEmpty(content)])
  /\ IF TrimIsEmpty(content)
     THEN UNCHANGED <<isLoading, requests>>
     ELSE /\ isLoading' = TRUE
          /\ requests' = requests \cup {[call |-> Len(calls) + 1, type |-> type,
                                         content |-> content, stage |-> "fetch"]}
  /\ UNCHANGED <<inputs, phishingResults>>
  /\ UNCHANGED prevention

\* await fetch(...) resolves (line 99); a response that is not ok throws (lines
\* 110-112).
fetchResolves(request, ok) ==
  /\ request.stage = "fetch"
  /\ IF ok
     THEN /\ requests' = (requests \ {request}) \cup {[request EXCEPT !.stage = "json"]}
          /\ UNCHANGED <<inputs, isLoading, phishingResults, calls>>
     ELSE \E rand \in Randoms : fallback(request, rand)
  /\ UNCHANGED prevention

\* await fetch(...) rejects: no network.
fetchRejects(request) ==
  /\ request.stage = "fetch"
  /\ \E rand \in Randoms : fallback(request, rand)
  /\ UNCHANGED prevention

\* await response.json() resolves (line 114); reading a field of null throws
\* (line 121).
jsonResolves(request, apiResult) ==
  /\ request.stage = "json"
  /\ IF apiResult # Null
     THEN complete(request,
                   PhishingResult(request, apiResult.prediction, apiResult.confidence,
                                  apiResult.reasons))
     ELSE \E rand \in Randoms : fallback(request, rand)
  /\ UNCHANGED prevention

\* await response.json() rejects: the body is no JSON.
jsonRejects(request) ==
  /\ request.stage = "json"
  /\ \E rand \in Randoms : fallback(request, rand)
  /\ UNCHANGED prevention

\* The panel, in use.
NextDetect ==
  \/ \E type \in Types, content \in DetectContents : setInput(type, content)
  \/ \E type \in Types : analyzePhishing(type, inputs[type])
  \/ \E request \in requests, ok \in BOOLEAN : fetchResolves(request, ok)
  \/ \E request \in requests : fetchRejects(request)
  \/ \E request \in requests, apiResult \in ApiResults : jsonResolves(request, apiResult)
  \/ \E request \in requests : jsonRejects(request)

SpecDetect == Init /\ [][NextDetect]_vars

\* The narrow environment: one link, one element text, one manual test, and the
\* history cleared now and then, for runs longer than the history.
NextRun ==
  \/ handleClick(fraudExamples.url, MaxRun)
  \/ observe(<<"ann.lee@corp-mail.com wrote this", "fraudExamples.sms">>, MaxRun)
  \/ loadExample("url")
  \/ handleManualTest(MaxRun)
  \/ ManualTestFire
  \/ clearAlerts

SpecRun == Init /\ [][NextRun]_vars

\* The scoring function alone: the timer callback run once on each closure, that
\* is on each flag, type and content.
InitEval ==
  /\ pending \in {<<closure>> :
                    closure \in [isEnabled : BOOLEAN, testType : Types,
                                 testContent : Contents]}
  /\ isEnabled = pending[1].isEnabled
  /\ testType = pending[1].testType
  /\ testContent = pending[1].testContent
  /\ isAnalyzing = TRUE
  /\ alerts = <<>>
  /\ showWarningPopup = Null
  /\ blockedCount = 0
  /\ interceptedAttempts = 0
  /\ fraudResult = Null
  /\ clock = 0
  /\ lastCall = Null
  /\ cleared = 0
  /\ opened = Null
  /\ addedNodes = {}
  /\ inputs = [type \in Types |-> <<>>]
  /\ isLoading = FALSE
  /\ requests = {}
  /\ phishingResults = <<>>
  /\ calls = <<>>

NextEval == ManualTestFire

SpecEval == InitEval /\ [][NextEval]_vars

\* ------------------------------------------------------------ properties --
\* The last call went past the guard of line 219.
Evaluated == lastCall # Null /\ lastCall.isEnabled /\ ~TrimIsEmpty(lastCall.content)

\* The sum of the table weights of findings, in hundredths.
SumNominal(fs) ==
  LET sum[i \in 0..Len(fs)] == IF i = 0 THEN 0 ELSE sum[i - 1] + fs[i].weight
  IN  sum[Len(fs)]

\* C1: the aggregate score of an evaluation is the sum of the weights of all its
\* findings, rule and structural or heuristic alike, times the safe-content
\* multiplier (0.6 or 1.0).  In fifths of hundredths, rounding left aside:
\* 5 * totalWeight = (sum of weights) * (5 * multiplier).
C1_MultiplierOnAllFindings ==
  Evaluated =>
    lastCall.score.totalWeight.n * 5
      = SumNominal(lastCall.score.findings)
          * safeContentMultiplier(lastCall.type, lastCall.content).n

\* An evaluation of safe-looking content with a heuristic finding and no rule
\* finding: the score is the full weight of the finding.
C1_Witness ==
  /\ Evaluated
  /\ isSafeContent(lastCall.type, lastCall.content)
  /\ Len(lastCall.score.findings) = 1
  /\ lastCall.score.totalWeight = Lit(100, lastCall.score.findings[1].weight)
  /\ lastCall.result # Null

\* C2: a call of analyzeContent made with the protection flag false, or with
\* content that is empty or only whitespace, returns null, and leaves the
\* history and both counters as they were.
C2_NullWhenOffOrBlank ==
  [][(lastCall' # lastCall /\ (~lastCall'.isEnabled \/ TrimIsEmpty(lastCall'.content)))
       => /\ lastCall'.result = Null
          /\ UNCHANGED <<alerts, interceptedAttempts, blockedCount>>]_vars

\* A call with the flag false on content that has findings returned null.
C2_Witness ==
  /\ lastCall # Null
  /\ ~lastCall.isEnabled
  /\ Len(lastCall.score.matchedReasons) > 0
  /\ lastCall.result = Null
  /\ alerts = <<>>

\* C3: while the protection flag is off no alert is appended to the history and
\* no counter is incremented, the firing of the manual test's timer included.
C3_NothingWhileOff ==
  [][~isEnabled => /\ alerts' = alerts \/ alerts' = <<>>
                   /\ interceptedAttempts' <= interceptedAttempts
                   /\ blockedCount' <= blockedCount]_vars

\* The flag is off and the history holds an alert made after it was switched
\* off.
C3_Witness ==
  /\ ~isEnabled
  /\ pending = <<>>
  /\ lastCall # Null /\ lastCall.result # Null
  /\ alerts # <<>> /\ Head(alerts) = lastCall.result
  /\ interceptedAttempts > 0

\* C4: the threat level of an evaluation with findings is a function of the
\* score alone: High from 2.0, Medium from 1.2 to below 2.0, Low from 0.6 to
\* below 1.2, and no result below 0.6.
C4_ThreatFromScore ==
  (Evaluated /\ Len(lastCall.score.matchedReasons) > 0) =>
    LET total == lastCall.score.totalWeight
        result == lastCall.result
        level == IF result = Null THEN "none" ELSE result.threat
    IN  /\ Ge(total, Lit(100, 200)) => level = "high"
        /\ (Ge(total, Lit(100, 120)) /\ ~Ge(total, Lit(100, 200))) => level = "medium"
        /\ (Ge(total, Lit(100, 60)) /\ ~Ge(total, Lit(100, 120))) => level = "low"
        /\ ~Ge(total, Lit(100, 60)) => level = "none"

\* An evaluation whose score is exactly 0.6 is Low.
C4_Witness ==
  /\ Evaluated
  /\ lastCall.score.totalWeight = Lit(100, 60)
  /\ lastCall.result # Null
  /\ lastCall.result.threat = "low"

\* C5: a result that is not null has at least one reason, and an evaluation that
\* collected no reason returns null.
C5_ReasonsNonEmpty ==
  lastCall # Null =>
    /\ lastCall.result # Null => Len(lastCall.result.reasons) > 0
    /\ Len(lastCall.score.matchedReasons) = 0 => lastCall.result = Null

\* An evaluation went past the guard, collected no reason, and returned null.
C5_Witness ==
  /\ Evaluated
  /\ Len(lastCall.score.matchedReasons) = 0
  /\ lastCall.result = Null

\* C6: the confidence of a result is
\* min(min(totalWeight / 3, 0.98) + min(reasonCount * 0.05, 0.15), 0.99),
\* reasonCount being the number of reasons collected.
C6_Confidence ==
  (lastCall # Null /\ lastCall.result # Null) =>
    LET total == lastCall.score.totalWeight
        count == Len(lastCall.score.matchedReasons)
        third == Round(300, total.n, total.d, 0)
        bonus == Round(300, 15 * count, count * Lit(300, 15).d, 0)
        base  == IF Ge(Lit(300, 294), third) THEN third ELSE Lit(300, 294)
        extra == IF Ge(Lit(300, 45), bonus) THEN bonus ELSE Lit(300, 45)
        sum   == Add(300, base, extra)
    IN  lastCall.result.confidence
          = IF Ge(Lit(300, 297), sum) THEN sum ELSE Lit(300, 297)

\* A result whose confidence is the ceiling 0.99, the sum being above it.
C6_Witness ==
  /\ lastCall # Null /\ lastCall.result # Null
  /\ lastCall.result.confidence = Lit(300, 297)
  /\ Len(lastCall.score.matchedReasons) >= 3
  /\ Ge(lastCall.score.totalWeight, Lit(100, 294))

\* C7: a result is blocked exactly when its level is High, or its level is Medium
\* and its confidence is above 0.75; a Low result is never blocked.
C7_Blocked ==
  (lastCall # Null /\ lastCall.result # Null) =>
    LET result == lastCall.result
    IN  /\ result.blocked <=>
             \/ result.threat = "high"
             \/ result.threat = "medium" /\ ~Ge(Lit(300, 225), result.confidence)
        /\ result.threat = "low" => ~result.blocked

\* A Medium result whose confidence is not above 0.75 is not blocked.
C7_Witness ==
  /\ lastCall # Null /\ lastCall.result # Null
  /\ lastCall.result.threat = "medium"
  /\ Ge(Lit(300, 225), lastCall.result.confidence)
  /\ ~lastCall.result.blocked

\* C8: the history never holds more than ten entries, however clicks, ambient
\* scans, manual tests and clearing interleave.
C8_HistoryAtMostTen == Len(alerts) <= 10

\* An alert was appended to a history that held ten.
C8_Witness == Len(alerts) = 10 /\ clock - cleared > 10

C10_AppendCounts ==
  [][(alerts' # alerts /\ alerts' # <<>>)
       => /\ interceptedAttempts' = interceptedAttempts + 1
          /\ blockedCount' = blockedCount + (IF Head(alerts').blocked THEN 1 ELSE 0)]_vars

\* The history holds more alerts than were counted.
C10_Witness == Len(alerts) > interceptedAttempts

\* C11: interceptedAttempts and blockedCount never decrease: no operation of the
\* component lowers either of them.
C11_CountersNeverDecrease ==
  [][/\ interceptedAttempts' >= interceptedAttempts
     /\ blockedCount' >= blockedCount]_vars

\* The popup still shows an intercepted link, which was counted, and the counter
\* of intercepted attempts is zero again.
C11_Witness ==
  /\ showWarningPopup # Null
  /\ showWarningPopup.type = "url"
  /\ interceptedAttempts = 0

\* C12: the history changes only by an evaluation that returned a result, which
\* is put in front of it; dismissing the popup, proceeding anyway, toggling the
\* flag, clearing, editing the test input and a null evaluation leave it as it
\* was.
C12_HistoryChangedByResultsOnly ==
  [][alerts' # alerts =>
       /\ lastCall' # Null
       /\ lastCall'.result # Null
       /\ clock' = clock + 1
       /\ alerts' = prepend(lastCall'.result, alerts)]_vars

\* The history is empty after alerts were made: it was cleared.
C12_Witness == alerts = <<>> /\ cleared > 0

\* The order of the outcomes: null < Low < Medium < High.
Rank(result) ==
  IF result = Null THEN 0
  ELSE IF result.threat = "low" THEN 1
  ELSE IF result.threat = "medium" THEN 2
  ELSE 3

\* The evaluation of the last call's content without its last fragment, next to
\* the evaluation of the whole.
WithBase ==
  The({[base |-> base, whole |-> lastCall.score,
        baseResult |-> Classify(lastCall.type, Take(lastCall.content, Len(lastCall.content) - 1), base, 0),
        wholeResult |-> lastCall.result] :
       base \in {Score(lastCall.type, Take(lastCall.content, Len(lastCall.content) - 1))}})

\* The last call evaluated a content of the vocabulary extended by a fragment
\* that brought a reason the content alone does not have.
Extended ==
  /\ Evaluated
  /\ Len(lastCall.content) >= 2
  /\ Take(lastCall.content, Len(lastCall.content) - 1) \in Contents
  /\ ~TrimIsEmpty(Take(lastCall.content, Len(lastCall.content) - 1))
  /\ \E i \in DOMAIN WithBase.whole.matchedReasons :
        \A j \in DOMAIN WithBase.base.matchedReasons :
           WithBase.whole.matchedReasons[i] # WithBase.base.matchedReasons[j]

\* C13: appending text that matches further fraud indicators to a content never
\* lowers the score, the threat level (null < Low < Medium < High) or the
\* confidence of its evaluation.
C13_Monotone ==
  Extended =>
    \A v \in {WithBase} :
      /\ Ge(v.whole.totalWeight, v.base.totalWeight)
      /\ Rank(v.wholeResult) >= Rank(v.baseResult)
      /\ (v.baseResult # Null /\ v.wholeResult # Null)
           => Ge(v.wholeResult.confidence, v.baseResult.confidence)

\* A short SMS with a finding was extended by text that brings a new reason and
\* matches a safe indicator: the score went down.
C13_Witness ==
  /\ Extended
  /\ lastCall.type = "sms"
  /\ isSafeContent("sms", lastCall.content)
  /\ ~Ge(WithBase.whole.totalWeight, WithBase.base.totalWeight)

Has(s, x) == \E i \in DOMAIN s : s[i] = x

\* The address handed to new URL by the last call (line 262), parsed.
Parsed ==
  ParseURL(IF startsWithHttp(lastCall.content) THEN lastCall.content
           ELSE <<"https://">> \o lastCall.content)

\* The last call evaluated url content whose parsing threw.
ParseFailed == Evaluated /\ lastCall.type = "url" /\ ~Parsed.ok

\* The number of rules of the last call's table that match its content.
RulesMatched ==
  Cardinality({i \in DOMAIN fraudPatterns[lastCall.type] :
                 Test(fraudPatterns[lastCall.type][i], lastCall.content)})

\* C15, as stated: an evaluation of url content whose parsing throws returns a
\* result, and the reasons of the result include 'Malformed URL structure'.
C15_MalformedInResult ==
  ParseFailed =>
    /\ lastCall.result # Null
    /\ Has(lastCall.result.reasons, "Malformed URL structure")

\* C15, amended: an evaluation of url content whose parsing throws returns a
\* result; 'Malformed URL structure' is among the reasons collected, and among
\* the reasons of the result unless ten reasons were collected before it.
C15_MalformedCollected ==
  ParseFailed =>
    /\ lastCall.result # Null
    /\ Has(lastCall.score.matchedReasons, "Malformed URL structure")
    /\ RulesMatched < 10 => Has(lastCall.result.reasons, "Malformed URL structure")

\* Content that is no URL matched all ten rules: the eleventh reason, the
\* malformed one, is not in the result.
C15_Witness ==
  /\ ParseFailed
  /\ RulesMatched = 10
  /\ lastCall.result # Null
  /\ ~Has(lastCall.result.reasons, "Malformed URL structure")

\* C16: when the parsing of url content throws, the structural analyzer adds one
\* finding, the malformed one with weight 0.8, after those of the matched rules
\* and nothing else; when the parsing succeeds, no malformed finding is added.
C16_MalformedAlone ==
  (Evaluated /\ lastCall.type = "url") =>
    \A fs \in {lastCall.score.findings} :
      IF Parsed.ok
      THEN ~Has(lastCall.score.matchedReasons, "Malformed URL structure")
      ELSE /\ Len(fs) = RulesMatched + 1
           /\ \A i \in 1..RulesMatched :
                 \E j \in DOMAIN fraudPatterns.url : fs[i].reason = fraudPatterns.url[j].reason
           /\ fs[Len(fs)].reason = "Malformed URL structure"
           /\ fs[Len(fs)].added = Lit(100, 80)

\* Content longer than 200 characters that is no URL and matches a rule.
C16_Witness ==
  /\ ParseFailed
  /\ Length(lastCall.content) > 200
  /\ RulesMatched >= 1
  /\ Len(lastCall.score.findings) = RulesMatched + 1

\* C17: https:// is put before url content exactly when the content has no
\* scheme: content that starts with a host and parses with https:// before it
\* is not reported as a malformed URL.
C17_PrefixedWithoutScheme ==
  (Evaluated /\ lastCall.type = "url" /\ Kind(lastCall.content[1]) = "host"
     /\ ParseURL(<<"https://">> \o lastCall.content).ok)
    => ~Has(lastCall.score.matchedReasons, "Malformed URL structure")

\* A host that begins with the letters http, followed by a path, was reported as
\* malformed.
C17_Witness ==
  /\ Evaluated /\ lastCall.type = "url"
  /\ Len(lastCall.content) = 2
  /\ lastCall.content[1] = "httpbin.org"
  /\ Kind(lastCall.content[2]) = "path"
  /\ Has(lastCall.score.matchedReasons, "Malformed URL structure")

\* C18: no reason is twice among the reasons collected by an evaluation, nor
\* among the reasons of its result.
C18_NoDuplicateReasons ==
  lastCall # Null =>
    \A rs \in {lastCall.score.matchedReasons} :
      \A i, j \in DOMAIN rs : rs[i] = rs[j] => i = j

\* An address with a Cyrillic letter in its host was parsed, and the homograph
\* reason was collected.
C18_Witness ==
  /\ Evaluated /\ lastCall.type = "url"
  /\ Parsed.ok
  /\ Has(lastCall.content, "[U+0430]pple.com")
  /\ Has(lastCall.score.matchedReasons,
         "Possible homograph/character substitution attack")

\* C19: the reasons of a result are the first ten of the reasons collected (all
\* of them when fewer), which start with the reasons of the matched rules in
\* table order; the content of a result is the first 300 characters of the
\* content (all of it when shorter).
C19_Truncation ==
  (lastCall # Null /\ lastCall.result # Null) =>
    \A v \in {[all |-> lastCall.score.matchedReasons, kept |-> lastCall.result.reasons,
               rules |-> SelectSeq(fraudPatterns[lastCall.type],
                                   LAMBDA rule : Test(rule, lastCall.content))]} :
      /\ Len(v.kept) <= 10
      /\ Len(v.kept) = (IF Len(v.all) < 10 THEN Len(v.all) ELSE 10)
      /\ \A i \in DOMAIN v.kept : v.kept[i] = v.all[i]
      /\ Len(v.rules) <= Len(v.all)
      /\ \A i \in DOMAIN v.rules : v.all[i] = v.rules[i].reason
      /\ lastCall.result.content.of = lastCall.content
      /\ lastCall.result.content.chars
           = (IF Length(lastCall.content) < 300 THEN Length(lastCall.content) ELSE 300)

\* A result for content longer than 300 characters with more than ten reasons.
C19_Witness ==
  /\ lastCall # Null /\ lastCall.result # Null
  /\ Len(lastCall.score.matchedReasons) > 10
  /\ Len(lastCall.result.reasons) = 10
  /\ Length(lastCall.content) > 300
  /\ lastCall.result.content.chars = 300

\* C20: the short-message finding of sms content (weight 0.3) is added exactly
\* when the content is shorter than 50 characters and a rule of the table
\* matched before; a short SMS that matches no rule gets nothing for its length.
C20_ShortSmsCompounds ==
  (Evaluated /\ lastCall.type = "sms") =>
    \A fs \in {lastCall.score.findings} :
      /\ Has(lastCall.score.matchedReasons, "Short message with suspicious content")
           <=> (Length(lastCall.content) < 50 /\ RulesMatched > 0)
      /\ \A i \in DOMAIN fs :
            fs[i].reason = "Short message with suspicious content"
              => (i = RulesMatched + 1 /\ fs[i].added = Lit(100, 30))

\* A short SMS matched the sender pattern and no rule: the short-message
\* finding was not added.
C20_Witness ==
  /\ Evaluated /\ lastCall.type = "sms"
  /\ Length(lastCall.content) < 50
  /\ RulesMatched = 0
  /\ Has(lastCall.score.matchedReasons, "Suspicious sender number pattern")
  /\ ~Has(lastCall.score.matchedReasons, "Short message with suspicious content")


\* C21: the evaluation of the fraud URL example,
\* https://secure-bankoamerica.tk/login?verify=suspended&urgent=true, as url
\* returns a High result that is blocked and has the reasons 'High-risk
\* top-level domain' and 'Credential harvesting attempt'.
C21_FraudUrlHighBlocked ==
  (Evaluated /\ lastCall.type = "url" /\ lastCall.content = fraudExamples.url) =>
    /\ lastCall.result # Null
    /\ lastCall.result.threat = "high"
    /\ lastCall.result.blocked
    /\ Has(lastCall.result.reasons, "High-risk top-level domain")
    /\ Has(lastCall.result.reasons, "Credential harvesting attempt")

\* The fraud URL example was evaluated as url: the address parsed, and the result
\* has five reasons and the confidence 0.99.
C21_Witness ==
  /\ Evaluated /\ lastCall.type = "url" /\ lastCall.content = fraudExamples.url
  /\ Parsed.ok
  /\ lastCall.result # Null
  /\ Len(lastCall.result.reasons) = 5
  /\ lastCall.result.confidence = Lit(300, 297)

\* C22: the evaluation of the legitimate email sample of the component
\* ('Subject: Meeting Reminder - Tomorrow at 2 PM ...') as email returns null.
C22_LegitimateEmailNull ==
  (Evaluated /\ lastCall.type = "email" /\ lastCall.content = <<"legitimate.email[2]">>)
    => lastCall.result = Null

\* The legitimate email sample was evaluated as email: no safe indicator matches
\* it, two rules of the email table do, at their full weights 0.4 + 0.7, and the
\* result is a Low alert.
C22_Witness ==
  /\ Evaluated /\ lastCall.type = "email" /\ lastCall.content = <<"legitimate.email[2]">>
  /\ ~isSafeContent(lastCall.type, lastCall.content)
  /\ lastCall.score.totalWeight = Lit(100, 110)
  /\ lastCall.score.matchedReasons
       = <<"Common spelling errors in scam emails", "Romance scam indicators">>
  /\ lastCall.result # Null
  /\ lastCall.result.threat = "low"
  /\ ~lastCall.result.blocked

\* C23: the evaluation of the prize message ("CONGRATULATIONS! You've won
\* $10,000! Click this link now to claim your prize before it expires:
\* http://bit.ly/claim-now.") as sms returns a High result whose reasons have
\* 'Prize scam indicators' and at least one of 'Suspicious link request' and
\* 'Creates false urgency'.
C23_PrizeSmsHigh ==
  (Evaluated /\ lastCall.type = "sms" /\ lastCall.content = <<PrizeSms>>) =>
    /\ lastCall.result # Null
    /\ lastCall.result.threat = "high"
    /\ Has(lastCall.result.reasons, "Prize scam indicators")
    /\ \/ Has(lastCall.result.reasons, "Suspicious link request")
       \/ Has(lastCall.result.reasons, "Creates false urgency")

\* The prize message was evaluated as sms: three rules matched, at their full
\* weights 0.9 + 0.85 + 0.8, and the result is blocked.
C23_Witness ==
  /\ Evaluated /\ lastCall.type = "sms" /\ lastCall.content = <<PrizeSms>>
  /\ ~isSafeContent(lastCall.type, lastCall.content)
  /\ RulesMatched = 3
  /\ SumNominal(lastCall.score.findings) = 255
  /\ lastCall.result # Null
  /\ lastCall.result.blocked


\* C26: every blocked result has a confidence above 0.75; every High result has
\* at least three reasons collected; a Medium result has at least two, so that
\* a Medium result with a single reason does not exist and is never blocked.
C26_BlockedIsConfident ==
  (lastCall # Null /\ lastCall.result # Null) =>
    \A v \in {[result |-> lastCall.result, count |-> Len(lastCall.score.matchedReasons)]} :
      /\ v.result.blocked => ~Ge(Lit(300, 225), v.result.confidence)
      /\ v.result.threat = "high" => v.count >= 3
      /\ v.result.threat = "medium" => v.count >= 2
      /\ (v.result.threat = "medium" /\ v.count = 1) => ~v.result.blocked

\* A High result with exactly three reasons and a score below 2.25: it is
\* blocked, and without the bonus of 0.15 its confidence would not pass 0.75.
C26_Witness ==
  /\ lastCall # Null /\ lastCall.result # Null
  /\ lastCall.result.threat = "high"
  /\ lastCall.result.blocked
  /\ Len(lastCall.score.matchedReasons) = 3
  /\ ~Ge(lastCall.score.totalWeight, Lit(100, 225))


\* C24: blocked content is never opened: window.open is never called for the
\* address of a URL alert whose blocked flag is true.
C24_BlockedNeverOpened == opened # Null => ~opened.blocked

\* Proceed Anyway was pressed in the popup of a blocked High alert of a URL, and
\* window.open was called with its address.
C24_Witness ==
  /\ opened # Null
  /\ opened.type = "url"
  /\ opened.threat = "high"
  /\ opened.blocked
  /\ urlMatch(opened.content)
  /\ showWarningPopup = Null

\* C27: the FraudResult handed to onFraudComplete is that of the alert just
\* appended, with High reported as 'malicious', Medium as 'suspicious' and Low
\* as 'safe': a blocked alert is never reported 'safe', and every Low alert
\* that is handed over is reported 'safe'.
C27_PredictionOfThreat ==
  [][fraudResult' # fraudResult =>
       \E alert \in {showWarningPopup'} :
          /\ alert # Null
          /\ alerts' # <<>> /\ alerts'[1] = alert
          /\ fraudResult'.id = alert.id
          /\ fraudResult'.confidence = alert.confidence
          /\ fraudResult'.reasons = alert.reasons
          /\ alert.threat = "high" => fraudResult'.prediction = "malicious"
          /\ alert.threat = "medium" => fraudResult'.prediction = "suspicious"
          /\ alert.threat = "low" => fraudResult'.prediction = "safe"
          /\ alert.blocked => fraudResult'.prediction # "safe"]_vars

\* A blocked Medium alert was handed over as 'suspicious' after a Low alert,
\* which is still in the history.
C27_Witness ==
  /\ fraudResult # Null
  /\ fraudResult.prediction = "suspicious"
  /\ Len(alerts) = 2
  /\ alerts[1].id = fraudResult.id
  /\ alerts[1].threat = "medium" /\ alerts[1].blocked
  /\ alerts[2].threat = "low"

\* C28: blockedCount is at most interceptedAttempts, in every state.
C28_BlockedAtMostIntercepted == blockedCount <= interceptedAttempts

\* Two attempts were intercepted, one of them blocked.
C28_Witness ==
  /\ interceptedAttempts = 2
  /\ blockedCount = 1
  /\ Len(alerts) = 2

\* C29: at most one manual test is pending at a time: while isAnalyzing the
\* button starts no other test, isAnalyzing is true exactly while a timer is
\* set, and every test that was started sets isAnalyzing false in the end.
C29_OneTestAtATime ==
  /\ [](Len(pending) <= 1 /\ (isAnalyzing <=> pending # <<>>))
  /\ [][pending' # pending /\ pending' # <<>> => ~isAnalyzing /\ pending = <<>>]_vars
  /\ (isAnalyzing ~> ~isAnalyzing)

\* A test is pending while the text area again holds text and protection is on:
\* only isAnalyzing keeps the button from starting another test.
C29_Witness ==
  /\ isAnalyzing
  /\ Len(pending) = 1
  /\ isEnabled
  /\ ~TrimIsEmpty(testContent)
  /\ testType # pending[1].testType


\* C25: the observer does not feed on the component's own output: a call of its
\* callback for the entry that the list shows for an alert, whose text holds
\* the label of the reasons, appends no alert.
C25_OwnOutputIgnored ==
  [][(lastCall' # lastCall /\ lastCall' # Null
        /\ Has(lastCall'.content, "Threats detected:"))
       => alerts' = alerts]_vars

\* An element of a page gave a Low alert, which nobody clicked or tested; the
\* callback was called for the card that shows it and appended a High alert,
\* blocked, whose content is the text of that card.
C25_Witness ==
  /\ Len(alerts) = 2
  /\ interceptedAttempts = 0
  /\ alerts[2].threat = "low"
  /\ alerts[2].content.of = <<"ann.lee@corp-mail.com wrote this", "meeting reminder">>
  /\ alerts[1].content.of = Node(alerts[2])
  /\ alerts[1].threat = "high"
  /\ alerts[1].blocked
  /\ Has(alerts[1].reasons, "Account threat tactics")
  /\ showWarningPopup = alerts[1]
  /\ alerts[1].id \in addedNodes


\* The results that a call of the detection panel has delivered.
Delivered(i) ==
  Cardinality({j \in DOMAIN phishingResults : phishingResults[j].call = i})

\* C30: in the detection panel every submission that is not blank delivers
\* exactly one result through onPhishingComplete, at its end and not before,
\* and ends with isLoading = false, whether the backend answers, answers with a
\* status that is not OK or throws; a blank submission delivers nothing and
\* leaves isLoading as it is.
C30_OneResultPerSubmission ==
  /\ [](\A i \in DOMAIN calls :
          /\ Delivered(i) = IF calls[i].ended /\ ~TrimIsEmpty(calls[i].content)
                            THEN 1 ELSE 0
          /\ calls[i].ended <=> ~\E request \in requests : request.call = i)
  /\ [][/\ \A i \in DOMAIN calls :
             calls'[i].ended /\ ~calls[i].ended
               => /\ ~isLoading'
                  /\ Len(phishingResults') = Len(phishingResults) + 1
                  /\ phishingResults'[1].call = i
                  /\ phishingResults'[1].type = calls[i].type
                  /\ phishingResults'[1].content.of = calls[i].content
        /\ Len(calls') > Len(calls) /\ TrimIsEmpty(calls'[Len(calls')].content)
             => isLoading' = isLoading /\ phishingResults' = phishingResults
                  /\ requests' = requests]_vars

\* Two submissions ended: for one fetch threw, and the local classifier found
\* the text of the scam email malicious; for the other, made while the first
\* was under way, the backend answered.  A blank one can be made as well.
C30_Witness ==
  /\ Len(calls) = 2
  /\ requests = {}
  /\ ~isLoading
  /\ Len(phishingResults) = 2
  /\ phishingResults[1].call = 1
  /\ phishingResults[1].prediction = "malicious"
  /\ phishingResults[1].confidence = 8500 + 14 * 99
  /\ phishingResults[1].reasons = <<"Creates false urgency",
                                    "Missing proper email formatting">>
  /\ phishingResults[2].call = 2
  /\ phishingResults[2].reasons = <<"Known phishing domain">>
  /\ inputs = [type \in Types |-> <<>>]

\* A blank submission was made while another was under way: it is over, there
\* is no result, and isLoading is still set.
C30_BlankWitness ==
  /\ Len(calls) = 2
  /\ TrimIsEmpty(calls[2].content)
  /\ calls[2].ended
  /\ ~calls[1].ended
  /\ isLoading
  /\ phishingResults = <<>>

=============================================================================
